---- MODULE Spec2Model ----
(***************************************************************************)
(* CrazyLib front end: the book search bar (BookSearchbar.jsx), the        *)
(* customer search bar (SearchBar in Searchresult.jsx), the container      *)
(* (Mainwindow, src/unnamed/part_000), the customer actions panel          *)
(* (SearchProperties, src/unnamed/part_001) and the borrow form            *)
(* (BorrowBook.jsx).                                                       *)
(*                                                                         *)
(* Every event handler runs to completion on the one UI thread, so each    *)
(* handler, timer callback and promise continuation is one action.  A      *)
(* React effect runs after the commit of the handler that changed one of   *)
(* its dependencies and before any other event is handled: the handler     *)
(* raises effectPending and RunEffect is then the only enabled action.     *)
(* Texts are sequences of one-character strings, so that trim() is         *)
(* computed.  null is NoBook / NoCustomer.                                  *)
(***************************************************************************)
EXTENDS Integers, Sequences, FiniteSets

\* ------------------------------------------------------------------ bounds
\* The highest request id the debounce effect may hand out.
MaxRequests == 3
\* The number of detail fetches a search bar may start.
MaxFetches == 1
\* The number of lookups the customer search bar may dispatch.
MaxLookups == 2
\* The number of customers selected one after the other.
MaxCustomers == 2
\* The number of blur timers of one text input pending at once.
MaxBlurTimers == 1
\* The number of times the user changes the tab.
MaxTabSwitches == 2
\* The number of ApiService.request calls followed.
MaxCalls == 2
\* The number of requests the user starts from the actions panel.
MaxOps == 3

\* ------------------------------------------------------- program constants
\* setTimeout(..., 300) of the debounced search effect.
Debounce == 300
\* setTimeout(..., 200) of handleBlur.
BlurDelay == 200
\* The clock advances in steps that divide both delays.
TickMs == BlurDelay \div 2

\* ------------------------------------------------------------------- texts
Al == <<"A", "l">>
Ali == <<"A", "l", "i">>
AlSp == <<"A", "l", " ">>
Empty == <<>>

\* What String.prototype.trim strips: the WhiteSpace and LineTerminator code
\* points of ECMAScript.  A character that cannot be written in a string here
\* stands under the name of its code point.
WhiteSpace ==
    {" ", "\t", "\n", "\f", "\r", " ",
     "U+000B", "U+00A0", "U+FEFF", "U+1680",
     "U+2000", "U+2001", "U+2002", "U+2003", "U+2004", "U+2005", "U+2006",
     "U+2007", "U+2008", "U+2009", "U+200A",
     "U+2028", "U+2029", "U+202F", "U+205F", "U+3000"}

IsSpace(c) == c \in WhiteSpace

RECURSIVE TrimStart(_)
TrimStart(s) ==
    IF s # <<>> /\ IsSpace(Head(s)) THEN TrimStart(Tail(s)) ELSE s

RECURSIVE TrimEnd(_)
TrimEnd(s) ==
    IF s # <<>> /\ IsSpace(s[Len(s)]) THEN TrimEnd(SubSeq(s, 1, Len(s) - 1)) ELSE s

\* String.prototype.trim
Trim(s) == TrimEnd(TrimStart(s))

\* The values the user may give the text input.
InputValues == {Empty, Al, Ali, AlSp}

\* ------------------------------------------------------------ server data
NoBook == [id |-> 0, title |-> Empty]
NoSuggestion == [id |-> 0, text |-> Empty]
Titles == {Al, Ali}
Sugg1 == [id |-> 1, text |-> Ali]
Sugg2 == [id |-> 2, text |-> Al]
\* response.suggestions of a search: absent or empty, or two entries.
SuggestionLists == {<<>>, <<Sugg1, Sugg2>>}

Elems(seq) == {seq[i] : i \in 1..Len(seq)}

\* The sequence without its i-th entry.
Without(seq, i) == SubSeq(seq, 1, i - 1) \o SubSeq(seq, i + 1, Len(seq))

VARIABLES
    \* BookSearchbar state (useState)
    showPopup, searchValue, suggestions, isLoading, selectedBook,
    \* BookSearchbar refs (useRef)
    currentSearchRef, searchTimeoutRef, requestIdRef,
    \* the debounced search effect has a changed dependency and has not run yet
    effectPending,
    \* pending setTimeout callbacks of the search effect: [rid, term, left]
    timers,
    \* pending setTimeout callbacks of handleBlur: the time left of each,
    \* the oldest first
    blurTimers,
    \* whether the text input has the focus
    focused,
    \* apiService.searchBooks calls in flight: [rid, term]
    bookSearches,
    \* apiService.getBook calls in flight from handleSelectSuggestion: [n, id, text]
    bookFetches,
    \* Mainwindow state
    bookDetails, isBookLoading,
    \* Mainwindow state: the tab shown
    activeTab,
    \* requests in flight whose component has left the page with its tab:
    \* [kind, n, cust, id], kind "getBook" (id: the book), "return" (id: the
    \* borrow event) or "borrow" (id: the book)
    detached,
    \* history: the number of tab changes
    tabSwitches,
    \* SearchBar state (useState)
    cShowPopup, cSearchValue, cSuggestions, cIsLoading,
    \* pending setTimeout callbacks of SearchBar.handleBlur (the time left of
    \* each, the oldest first), and the focus
    cBlurTimers, cFocused,
    \* apiService.searchCustomers calls in flight: how many for each query
    custSearches,
    \* apiService.getCustomer calls in flight from handleSelectCustomer: [n, id]
    custFetches,
    \* Mainwindow state
    customerDetails, custIsLoading,
    \* history: the last event handled (an input, a click, a timer of a
    \* lookup, a settled request; not focus and blur, which carry no data),
    \* the number of getBook calls started,
    \* the number of lookups dispatched since searchValue last changed, the
    \* suggestion selected last
    ev, fetchSeq, lookupsSinceChange, lastSelected,
    \* history: the numbers of searchCustomers and getCustomer calls started
    custSeq, custFetchSeq,
    \* SearchProperties state (useState)
    activeSubTab, borrowed, spIsLoading, returningId,
    \* the customer-change effect of SearchProperties has not run yet
    spEffectPending,
    \* apiService.getCustomerBorrowed calls in flight: [n, cust, then, seen]
    loads,
    \* apiService.returnBook calls in flight: [n, cust, event]
    returns,
    \* BorrowBook state (useState)
    bookId, bookData, availableCopy, isSearching, isBorrowing, errorMessage,
    \* apiService.getBook calls in flight from searchBookCopy: [key, raw]
    copySearches,
    \* apiService.borrowBook calls in flight: [n, cust, book, orphan]
    borrows,
    \* the server: the borrow events it lists for each customer
    srvBorrowed,
    \* history: getCustomerBorrowed calls started, requests the user started
    \* from the panel, onBorrowSuccess calls, borrow requests issued, the
    \* outcome of the last book search, the last alert shown
    loadSeq, panelOps, refreshCalls, borrowCalls, lastSearch, lastAlert,
    \* ApiService.request, for each call in the order the calls were made:
    \* where it stands ("fetch", "body", "done"), its endpoint, the response
    \* fetch resolved with, what the call returned or threw
    apiPhase, apiEndpoint, apiResponse, apiOutcome,
    \* history: the numbers of request calls and of fetch calls
    apiCalls, apiFetches

bookVars == <<showPopup, searchValue, suggestions, isLoading, selectedBook,
              currentSearchRef, searchTimeoutRef, requestIdRef, effectPending,
              timers, blurTimers, focused, bookSearches, bookFetches,
              bookDetails, isBookLoading, fetchSeq, lookupsSinceChange,
              lastSelected>>

\* SearchBar
barVars == <<cShowPopup, cSearchValue, cSuggestions, cIsLoading, cBlurTimers,
             cFocused, custSearches, custSeq>>

\* Mainwindow, customer side
mainVars == <<custFetches, customerDetails, custIsLoading, custFetchSeq>>

custVars == <<barVars, mainVars>>

\* SearchProperties
propVars == <<activeSubTab, borrowed, spIsLoading, returningId, loads, returns,
              loadSeq, lastAlert>>

\* BorrowBook
formVars == <<bookId, bookData, availableCopy, isSearching, isBorrowing,
              errorMessage, copySearches, borrows, refreshCalls, borrowCalls,
              lastSearch>>

panelVars == <<propVars, formVars, spEffectPending, srvBorrowed, panelOps>>

\* ApiService
apiVars == <<apiPhase, apiEndpoint, apiResponse, apiOutcome, apiCalls, apiFetches>>

\* Mainwindow's tab, and what outlives the components of a tab left
tabVars == <<activeTab, detached, tabSwitches>>

vars == <<tabVars, bookVars, custVars, panelVars, apiVars, ev>>

Event(kind, arg, ok) == [kind |-> kind, arg |-> arg, ok |-> ok]

\* {activeTab === 'temp2' && <SearchBook .../>}: the book search bar is
\* mounted, and a step of it leaves the customer tab alone.
BookMounted ==
    activeTab = "temp2" /\ UNCHANGED <<tabVars, custVars, panelVars, apiVars>>

\* {activeTab === 'temp1' && <SearchBar .../>}
\* The effect of SearchProperties runs right after the render that made it due.
CustMounted ==
    /\ activeTab = "temp1"
    /\ ~spEffectPending
    /\ UNCHANGED <<tabVars, apiVars, bookVars, panelVars>>

\* --------------------------------------------------------------- Mainwindow
\* A container that does not keep what the search bar hands it.
HandleSelectBookDrops(book) ==
    /\ UNCHANGED bookDetails
    /\ isBookLoading' = FALSE

\* handleSelectBook(book): the details shown and the loading flag afterwards.
HandleSelectBook(book) ==
    /\ bookDetails' = book
    /\ isBookLoading' = FALSE

\* ------------------------------------------------------------ BookSearchbar
\* A handler that leaves the pending timer running.
ClearTimeoutSkipped(ts, ref) == ts

\* if (searchTimeoutRef.current) clearTimeout(searchTimeoutRef.current)
ClearTimeoutOf(ts, ref) == {t \in ts : t.rid # ref}

\* A guard that compares the query alone.
IsStillCurrentByTerm(r) == currentSearchRef = r.term

\* currentSearchRef.current === searchTerm && currentRequestId === requestIdRef.current
IsStillCurrent(r) ==
    /\ currentSearchRef = r.term
    /\ r.rid = requestIdRef

\* Every run of the effect with a non-empty term takes a request id; the
\* events that lead to one are held back once the ids are used up.
Budget(k) == requestIdRef + Cardinality(bookFetches) + k <= MaxRequests

\* An effect that debounces the empty string like any other term.
IsEmptySearchNever(searchTerm) == FALSE

\* if (searchTerm.length === 0)
IsEmptySearch(searchTerm) == Len(searchTerm) = 0

\* The debounced search effect, deps [searchValue, onBookSelect].
RunEffect ==
    /\ BookMounted
    /\ effectPending
    /\ LET searchTerm == Trim(searchValue)
           cleared == ClearTimeoutOf(timers, searchTimeoutRef)
       IN IF IsEmptySearch(searchTerm)
          THEN /\ timers' = cleared
               /\ suggestions' = <<>>
               /\ showPopup' = FALSE
               /\ selectedBook' = NoBook
               /\ currentSearchRef' = Empty
               /\ HandleSelectBook(NoBook)
               \* Mainwindow renders again when its state changed, and hands
               \* down a new onBookSelect
               /\ effectPending' = (bookDetails # NoBook)
               /\ UNCHANGED <<requestIdRef, searchTimeoutRef>>
          ELSE /\ requestIdRef' = requestIdRef + 1
               /\ timers' = cleared \cup
                    {[rid |-> requestIdRef + 1, term |-> searchTerm, left |-> Debounce]}
               /\ searchTimeoutRef' = requestIdRef + 1
               /\ effectPending' = FALSE
               /\ UNCHANGED <<suggestions, showPopup, selectedBook, currentSearchRef,
                              bookDetails, isBookLoading>>
    /\ UNCHANGED <<searchValue, isLoading, blurTimers, focused, bookSearches,
                   bookFetches, fetchSeq, lookupsSinceChange, lastSelected, ev>>

\* handleInputChange, the onChange of the text input.
HandleInputChange(value) ==
    /\ BookMounted
    /\ ~effectPending
    /\ value # searchValue
    /\ Len(Trim(value)) > 0 => Budget(1)
    /\ searchValue' = value
    /\ IF selectedBook # NoBook /\ value # selectedBook.title
       THEN /\ selectedBook' = NoBook
            /\ HandleSelectBook(NoBook)
       ELSE UNCHANGED <<selectedBook, bookDetails, isBookLoading>>
    /\ effectPending' = TRUE
    /\ lookupsSinceChange' = 0
    /\ lastSelected' = lastSelected
    /\ ev' = Event("input", value, TRUE)
    /\ UNCHANGED <<showPopup, suggestions, isLoading, currentSearchRef,
                   searchTimeoutRef, requestIdRef, timers, blurTimers, focused,
                   bookSearches, bookFetches, fetchSeq>>

\* The callback given to setTimeout by the effect, up to its await.
TimerFire(t) ==
    /\ BookMounted
    /\ ~effectPending
    /\ t \in timers
    /\ t.left <= 0
    /\ timers' = timers \ {t}
    /\ currentSearchRef' = t.term
    /\ isLoading' = TRUE
    /\ bookSearches' = bookSearches \cup {[rid |-> t.rid, term |-> t.term]}
    /\ lookupsSinceChange' = lookupsSinceChange + 1
    /\ lastSelected' = lastSelected
    /\ ev' = Event("lookup", t.term, TRUE)
    /\ UNCHANGED <<showPopup, searchValue, suggestions, selectedBook,
                   searchTimeoutRef, requestIdRef, effectPending, blurTimers,
                   focused, bookFetches, bookDetails, isBookLoading, fetchSeq>>

\* The rest of the timer callback: searchBooks settled (ok: resolved with
\* the list, otherwise rejected).
SearchResponse(r, ok, list) ==
    /\ BookMounted
    /\ ~effectPending
    /\ r \in bookSearches
    /\ bookSearches' = bookSearches \ {r}
    /\ IF IsStillCurrent(r)
       THEN /\ suggestions' = IF ok THEN list ELSE <<>>
            /\ showPopup' = IF ok THEN TRUE ELSE showPopup
            /\ isLoading' = FALSE
       ELSE UNCHANGED <<suggestions, showPopup, isLoading>>
    /\ ev' = [kind |-> "searchResponse", arg |-> r.term, ok |-> ok,
              applied |-> IsStillCurrent(r)]
    /\ UNCHANGED <<searchValue, selectedBook, currentSearchRef, searchTimeoutRef,
                   requestIdRef, effectPending, timers, blurTimers, focused,
                   bookFetches, bookDetails, isBookLoading, fetchSeq,
                   lookupsSinceChange, lastSelected>>

HandleFocus ==
    /\ BookMounted
    /\ ~effectPending
    /\ ~focused
    /\ focused' = TRUE
    /\ showPopup' = IF Len(Trim(searchValue)) > 0 /\ Len(suggestions) > 0
                    THEN TRUE ELSE showPopup
    /\ UNCHANGED ev
    /\ UNCHANGED <<searchValue, suggestions, isLoading, selectedBook,
                   currentSearchRef, searchTimeoutRef, requestIdRef, effectPending,
                   timers, blurTimers, bookSearches, bookFetches, bookDetails,
                   isBookLoading, fetchSeq, lookupsSinceChange, lastSelected>>

HandleBlur ==
    /\ BookMounted
    /\ ~effectPending
    /\ focused
    /\ focused' = FALSE
    /\ blurTimers' = Append(blurTimers, BlurDelay)
    /\ UNCHANGED ev
    /\ UNCHANGED <<showPopup, searchValue, suggestions, isLoading, selectedBook,
                   currentSearchRef, searchTimeoutRef, requestIdRef, effectPending,
                   timers, bookSearches, bookFetches, bookDetails, isBookLoading,
                   fetchSeq, lookupsSinceChange, lastSelected>>

\* () => setShowPopup(false), 200 ms after a blur
BlurTimerFire(i) ==
    /\ BookMounted
    /\ ~effectPending
    /\ i \in 1..Len(blurTimers)
    /\ blurTimers[i] <= 0
    /\ blurTimers' = Without(blurTimers, i)
    /\ showPopup' = FALSE
    /\ UNCHANGED ev
    /\ UNCHANGED <<searchValue, suggestions, isLoading, selectedBook,
                   currentSearchRef, searchTimeoutRef, requestIdRef, effectPending,
                   timers, focused, bookSearches, bookFetches, bookDetails,
                   isBookLoading, fetchSeq, lookupsSinceChange, lastSelected>>

\* handleSelectSuggestion up to its await: the click on a popup item.
HandleSelectSuggestion(s) ==
    /\ BookMounted
    /\ ~effectPending
    /\ showPopup /\ ~isLoading /\ s \in Elems(suggestions)
    /\ fetchSeq < MaxFetches
    /\ Budget(IF s.text # searchValue THEN 2 ELSE 1)
    /\ timers' = ClearTimeoutOf(timers, searchTimeoutRef)
    /\ searchValue' = s.text
    /\ showPopup' = FALSE
    /\ isLoading' = TRUE
    /\ fetchSeq' = fetchSeq + 1
    /\ bookFetches' = bookFetches \cup {[n |-> fetchSeq + 1, id |-> s.id, text |-> s.text]}
    /\ effectPending' = (s.text # searchValue)
    /\ lookupsSinceChange' = IF s.text # searchValue THEN 0 ELSE lookupsSinceChange
    /\ lastSelected' = s
    /\ ev' = [kind |-> "select", arg |-> s, ok |-> TRUE,
              cancelled |-> Cardinality(timers \ timers')]
    /\ UNCHANGED <<suggestions, selectedBook, currentSearchRef, searchTimeoutRef,
                   requestIdRef, blurTimers, focused, bookSearches, bookDetails,
                   isBookLoading>>

\* The rest of handleSelectSuggestion: getBook settled.  A resolved call
\* yields a new object, so Mainwindow's state changes and it renders again.
DetailResponse(f, ok, title) ==
    /\ BookMounted
    /\ ~effectPending
    /\ f \in bookFetches
    /\ bookFetches' = bookFetches \ {f}
    /\ LET fullBook == IF ok THEN [id |-> f.id, title |-> title] ELSE NoBook
       IN /\ selectedBook' = fullBook
          /\ HandleSelectBook(fullBook)
          /\ effectPending' = (ok \/ bookDetails # NoBook)
          /\ ev' = Event("detail", [fetch |-> f, book |-> fullBook], ok)
    /\ isLoading' = FALSE
    /\ UNCHANGED <<showPopup, searchValue, suggestions, currentSearchRef,
                   searchTimeoutRef, requestIdRef, timers, blurTimers, focused,
                   bookSearches, fetchSeq, lookupsSinceChange, lastSelected>>

\* clearSelection, the onClick of the clear button.
ClearSelection ==
    /\ BookMounted
    /\ ~effectPending
    /\ selectedBook # NoBook \/ searchValue # Empty
    /\ timers' = ClearTimeoutOf(timers, searchTimeoutRef)
    /\ searchValue' = Empty
    /\ selectedBook' = NoBook
    /\ suggestions' = <<>>
    /\ showPopup' = FALSE
    /\ currentSearchRef' = Empty
    /\ HandleSelectBook(NoBook)
    /\ effectPending' = (searchValue # Empty \/ bookDetails # NoBook)
    /\ lookupsSinceChange' = IF searchValue # Empty THEN 0 ELSE lookupsSinceChange
    /\ lastSelected' = lastSelected
    /\ ev' = Event("clear", Empty, TRUE)
    /\ UNCHANGED <<isLoading, searchTimeoutRef, requestIdRef, blurTimers, focused,
                   bookSearches, bookFetches, fetchSeq>>

\* Time passes while no timer is due.
Tick ==
    /\ BookMounted
    /\ ~effectPending
    /\ timers # {} \/ blurTimers # <<>>
    /\ \A t \in timers : t.left > 0
    /\ \A left \in Elems(blurTimers) : left > 0
    /\ timers' = {[t EXCEPT !.left = t.left - TickMs] : t \in timers}
    /\ blurTimers' = [i \in 1..Len(blurTimers) |-> blurTimers[i] - TickMs]
    /\ UNCHANGED <<showPopup, searchValue, suggestions, isLoading, selectedBook,
                   currentSearchRef, searchTimeoutRef, requestIdRef, effectPending,
                   focused, bookSearches, bookFetches, bookDetails, isBookLoading,
                   fetchSeq, lookupsSinceChange, lastSelected, ev>>

InitBook ==
    /\ showPopup = FALSE
    /\ searchValue = Empty
    /\ suggestions = <<>>
    /\ isLoading = FALSE
    /\ selectedBook = NoBook
    /\ currentSearchRef = Empty
    /\ searchTimeoutRef = 0
    /\ requestIdRef = 0
    /\ effectPending = FALSE
    /\ timers = {}
    /\ blurTimers = <<>>
    /\ focused = FALSE
    /\ bookSearches = {}
    /\ bookFetches = {}
    /\ bookDetails = NoBook
    /\ isBookLoading = FALSE
    /\ fetchSeq = 0
    /\ lookupsSinceChange = 0
    /\ lastSelected = NoSuggestion

\* ---------------------------------------------------------------- SearchBar
NoCustomer == [id |-> 0]

\* Mainwindow.handleSelectCustomer up to its await.
HandleSelectCustomer(customer) ==
    /\ custIsLoading' = TRUE
    /\ custFetchSeq' = custFetchSeq + 1
    /\ custFetches' = custFetches \cup {[n |-> custFetchSeq + 1, id |-> customer.id]}
    /\ UNCHANGED customerDetails

\* SearchBar.handleInputChange up to its await.
CustInputChange(value) ==
    /\ CustMounted
    /\ value # cSearchValue
    /\ custSeq < MaxLookups
    /\ cSearchValue' = value
    /\ IF Len(Trim(value)) > 0
       THEN /\ cIsLoading' = TRUE
            /\ custSeq' = custSeq + 1
            /\ custSearches' = [custSearches EXCEPT ![value] = @ + 1]
            /\ UNCHANGED <<cSuggestions, cShowPopup>>
       ELSE /\ cSuggestions' = <<>>
            /\ cShowPopup' = FALSE
            /\ UNCHANGED <<cIsLoading, custSeq, custSearches>>
    /\ ev' = Event("custInput", value, TRUE)
    /\ UNCHANGED <<cBlurTimers, cFocused, custFetches, customerDetails,
                   custIsLoading, custFetchSeq>>

\* The rest of SearchBar.handleInputChange: searchCustomers settled.
CustSearchResponse(r, ok, list) ==
    /\ CustMounted
    /\ custSearches[r] > 0
    /\ custSearches' = [custSearches EXCEPT ![r] = @ - 1]
    /\ cSuggestions' = IF ok THEN list ELSE <<>>
    /\ cShowPopup' = IF ok THEN TRUE ELSE cShowPopup
    /\ cIsLoading' = FALSE
    /\ ev' = Event("custSearchResponse", r, ok)
    /\ UNCHANGED <<cSearchValue, cBlurTimers, cFocused, custFetches,
                   customerDetails, custIsLoading, custSeq, custFetchSeq>>

CustFocus ==
    /\ CustMounted
    /\ ~cFocused
    /\ cFocused' = TRUE
    /\ cShowPopup' = IF Len(Trim(cSearchValue)) > 0 THEN TRUE ELSE cShowPopup
    /\ UNCHANGED ev
    /\ UNCHANGED <<cSearchValue, cSuggestions, cIsLoading, cBlurTimers,
                   custSearches, custFetches, customerDetails, custIsLoading,
                   custSeq, custFetchSeq>>

CustBlur ==
    /\ CustMounted
    /\ cFocused
    /\ cFocused' = FALSE
    /\ cBlurTimers' = Append(cBlurTimers, BlurDelay)
    /\ UNCHANGED ev
    /\ UNCHANGED <<cShowPopup, cSearchValue, cSuggestions, cIsLoading,
                   custSearches, custFetches, customerDetails, custIsLoading,
                   custSeq, custFetchSeq>>

CustBlurTimerFire(i) ==
    /\ CustMounted
    /\ i \in 1..Len(cBlurTimers)
    /\ cBlurTimers[i] <= 0
    /\ cBlurTimers' = Without(cBlurTimers, i)
    /\ cShowPopup' = FALSE
    /\ UNCHANGED ev
    /\ UNCHANGED <<cSearchValue, cSuggestions, cIsLoading, cFocused,
                   custSearches, custFetches, customerDetails, custIsLoading,
                   custSeq, custFetchSeq>>

\* SearchBar.handleSelectSuggestion, which calls Mainwindow.handleSelectCustomer.
CustSelectSuggestion(s) ==
    /\ CustMounted
    /\ cShowPopup /\ ~cIsLoading /\ s \in Elems(cSuggestions)
    /\ cSearchValue' = s.text
    /\ cShowPopup' = FALSE
    /\ HandleSelectCustomer(s)
    /\ ev' = Event("custSelect", s, TRUE)
    /\ UNCHANGED <<cSuggestions, cIsLoading, cBlurTimers, cFocused, custSearches,
                   custSeq>>

\* Time passes while no timer is due.
CustTick ==
    /\ CustMounted
    /\ cBlurTimers # <<>>
    /\ \A left \in Elems(cBlurTimers) : left > 0
    /\ cBlurTimers' = [i \in 1..Len(cBlurTimers) |-> cBlurTimers[i] - TickMs]
    /\ UNCHANGED <<cShowPopup, cSearchValue, cSuggestions, cIsLoading, cFocused,
                   custSearches, custFetches, customerDetails, custIsLoading,
                   custSeq, custFetchSeq, ev>>

InitCust ==
    /\ cShowPopup = FALSE
    /\ cSearchValue = Empty
    /\ cSuggestions = <<>>
    /\ cIsLoading = FALSE
    /\ cBlurTimers = <<>>
    /\ cFocused = FALSE
    /\ custSearches = [v \in InputValues |-> 0]
    /\ custFetches = {}
    /\ customerDetails = NoCustomer
    /\ custIsLoading = FALSE
    /\ custSeq = 0
    /\ custFetchSeq = 0

\* --------------------------------------------------------- SearchProperties
\* The book ids typed into the borrow form.
Sp == <<" ">>
Seven == <<"7">>
SevenSp == <<"7", " ">>
TabSeven == <<"\t", "7", "U+3000">>
BookIdInputs == {Empty, Sp, Seven, SevenSp, TabSeven}

\* The customers the server knows, and the borrow events it lists at first.
Customers == {1, 2}
InitialBorrowed == [c \in Customers |-> IF c = 1 THEN {11, 12} ELSE {}]

\* The book records getBook may answer with: id, title, available_copies,
\* copies_count.
BookRecords == {[id |-> 7, title |-> Ali, available |-> a, copies |-> 1] : a \in 0..1}

\* null in bookData and in availableCopy, '' in errorMessage
NoBookData == [id |-> 0, title |-> Empty, available |-> 0, copies |-> 0]
NoCopy == [book_id |-> 0]
NoError == [kind |-> "", text |-> Empty, a |-> 0, b |-> 0]
NoSearch == [kind |-> "none", book |-> NoBookData]

\* The messages of a failed request: error.message, '' when it has none.
Detail == <<"d">>
Messages == {Empty, Detail}

\* SearchProperties renders its panel: if (!customerDetails) return null.
PanelMounted ==
    /\ activeTab = "temp1"
    /\ ~spEffectPending
    /\ customerDetails # NoCustomer

\* {activeSubTab === 'borrow' && <BorrowBook .../>}
FormMounted == PanelMounted /\ activeSubTab = "borrow"

\* BorrowBook leaves the page: its state is gone, a later BorrowBook starts
\* from the initial state, and what its requests set on settling is lost.
UnmountForm ==
    /\ bookId' = Empty
    /\ bookData' = NoBookData
    /\ availableCopy' = NoCopy
    /\ isSearching' = FALSE
    /\ isBorrowing' = FALSE
    /\ errorMessage' = NoError
    /\ copySearches' = {}
    /\ lastSearch' = NoSearch

Orphaned(bs) == {[b EXCEPT !.orphan = TRUE] : b \in bs}

\* SearchProperties.loadBorrowed up to its await, for the customer of the
\* render the caller belongs to; then is what the caller does after it.
\* The server answers a getCustomerBorrowed call with a list it held for the
\* customer at some moment while the call was in flight: seen collects them.
Observe(ls, cust, list) ==
    {[l EXCEPT !.seen = IF l.cust = cust THEN @ \cup {list} ELSE @] : l \in ls}

\* list: what the server holds for the customer when the call is made.
LoadBorrowed(cust, then, list) ==
    IF cust = 0
    THEN /\ borrowed' = {}
         /\ UNCHANGED <<spIsLoading, loads, loadSeq>>
    ELSE /\ spIsLoading' = TRUE
         /\ loadSeq' = loadSeq + 1
         /\ loads' = Observe(loads, cust, list)
                       \cup {[n |-> loadSeq + 1, cust |-> cust, then |-> then,
                              seen |-> {list}]}
         /\ UNCHANGED borrowed

\* useEffect(..., [customerDetails?.id])
RunPanelEffect ==
    /\ activeTab = "temp1"
    /\ spEffectPending
    /\ spEffectPending' = FALSE
    /\ activeSubTab' = "borrowed"
    /\ LoadBorrowed(customerDetails.id, "none",
                    IF customerDetails.id = 0 THEN {} ELSE srvBorrowed[customerDetails.id])
    /\ IF activeSubTab = "borrow"
       THEN UnmountForm /\ borrows' = Orphaned(borrows)
       ELSE UNCHANGED <<bookId, bookData, availableCopy, isSearching, isBorrowing,
                        errorMessage, copySearches, lastSearch, borrows>>
    /\ ev' = Event("panelEffect", customerDetails.id, TRUE)
    /\ UNCHANGED <<tabVars, apiVars, bookVars, custVars, returningId, returns, lastAlert,
                   refreshCalls, borrowCalls, srvBorrowed, panelOps>>

\* The rest of loadBorrowed: getCustomerBorrowed settled; and the rest of the
\* caller that awaited it (handleReturn, handleBorrowSuccess).
LoadResponse(l, ok, rows) ==
    /\ activeTab = "temp1"
    /\ ~spEffectPending
    /\ l \in loads
    /\ rows \in l.seen
    /\ loads' = loads \ {l}
    /\ borrowed' = IF ok THEN rows ELSE {}
    /\ spIsLoading' = FALSE
    /\ returningId' = IF l.then = "return" THEN 0 ELSE returningId
    /\ activeSubTab' = IF l.then = "borrow" THEN "borrowed" ELSE activeSubTab
    /\ IF l.then = "borrow" /\ activeSubTab = "borrow"
       THEN UnmountForm /\ borrows' = Orphaned(borrows)
       ELSE UNCHANGED <<bookId, bookData, availableCopy, isSearching, isBorrowing,
                        errorMessage, copySearches, lastSearch, borrows>>
    /\ ev' = Event("loadResponse", [load |-> l, rows |-> IF ok THEN rows ELSE {}], ok)
    /\ UNCHANGED <<tabVars, apiVars, bookVars, custVars, spEffectPending, returns, loadSeq,
                   lastAlert, refreshCalls, borrowCalls, srvBorrowed, panelOps>>

\* The tab buttons: setActiveSubTab, handleBorrowTab.
SetActiveSubTab(tab) ==
    /\ PanelMounted
    /\ tab # activeSubTab
    /\ activeSubTab' = tab
    /\ IF activeSubTab = "borrow"
       THEN UnmountForm /\ borrows' = Orphaned(borrows)
       ELSE UNCHANGED <<bookId, bookData, availableCopy, isSearching, isBorrowing,
                        errorMessage, copySearches, lastSearch, borrows>>
    /\ ev' = Event("subTab", tab, TRUE)
    /\ UNCHANGED <<tabVars, apiVars, bookVars, custVars, spEffectPending, borrowed,
                   spIsLoading, returningId, loads, returns, loadSeq, lastAlert,
                   refreshCalls, borrowCalls, srvBorrowed, panelOps>>

\* The Return button of a row:
\* disabled={isLoading || returningId === row.event_id}
RowDisabled(eventId) == spIsLoading \/ returningId = eventId

\* SearchProperties.handleReturn up to its first await.
HandleReturn(borrowEventId) ==
    /\ PanelMounted
    /\ activeSubTab = "borrowed"
    /\ panelOps < MaxOps
    /\ borrowEventId \in borrowed
    /\ ~RowDisabled(borrowEventId)
    /\ returningId' = borrowEventId
    /\ returns' = returns \cup {[n |-> panelOps + 1, cust |-> customerDetails.id,
                                 event |-> borrowEventId]}
    /\ panelOps' = panelOps + 1
    /\ ev' = Event("return", borrowEventId, TRUE)
    /\ UNCHANGED <<tabVars, apiVars, bookVars, custVars, spEffectPending, activeSubTab,
                   borrowed, spIsLoading, loads, loadSeq, lastAlert, formVars,
                   srvBorrowed>>

\* alert(e.message || 'Return failed')
ReturnAlertNone(msg) == Empty

ReturnAlert(msg) == IF msg # Empty THEN msg ELSE <<"Return failed">>

\* handleReturn after returnBook settled: the reload, or the alert.
ReturnResponse(r, ok, msg) ==
    /\ activeTab = "temp1"
    /\ ~spEffectPending
    /\ r \in returns
    /\ returns' = returns \ {r}
    /\ IF ok
       THEN /\ srvBorrowed' = [srvBorrowed EXCEPT ![r.cust] = @ \ {r.event}]
            /\ LoadBorrowed(r.cust, "return", srvBorrowed[r.cust] \ {r.event})
            /\ UNCHANGED <<returningId, lastAlert>>
       ELSE /\ lastAlert' = ReturnAlert(msg)
            /\ returningId' = 0
            /\ UNCHANGED <<srvBorrowed, borrowed, spIsLoading, loads, loadSeq>>
    /\ ev' = Event("returnResponse", [req |-> r, msg |-> IF ok THEN Empty ELSE msg], ok)
    /\ UNCHANGED <<tabVars, apiVars, bookVars, custVars, spEffectPending, activeSubTab,
                   formVars, panelOps>>

\* --------------------------------------------------------------- BorrowBook
\* disabled={isSearching || isBorrowing}, on the input and on the Find button.
ControlsDisabledWhileSearching == isSearching

ControlsDisabled == isSearching \/ isBorrowing

\* onChange={(e) => setBookId(e.target.value)}
SetBookId(value) ==
    /\ FormMounted
    /\ ~ControlsDisabled
    /\ value # bookId
    /\ bookId' = value
    /\ ev' = Event("bookId", value, TRUE)
    /\ UNCHANGED <<tabVars, apiVars, bookVars, custVars, propVars, spEffectPending,
                   srvBorrowed, panelOps, bookData, availableCopy, isSearching,
                   isBorrowing, errorMessage, copySearches, borrows, refreshCalls,
                   borrowCalls, lastSearch>>

\* BorrowBook.searchBookCopy up to its await (the Find button, the Enter key).
SearchBookCopy ==
    /\ FormMounted
    /\ ~ControlsDisabled
    /\ IF Len(Trim(bookId)) = 0
       THEN /\ errorMessage' = [NoError EXCEPT !.kind = "enterId"]
            /\ UNCHANGED <<bookData, availableCopy, isSearching, copySearches,
                           panelOps, lastSearch>>
       ELSE /\ panelOps < MaxOps
            /\ panelOps' = panelOps + 1
            /\ isSearching' = TRUE
            /\ errorMessage' = NoError
            /\ bookData' = NoBookData
            /\ availableCopy' = NoCopy
            /\ copySearches' = copySearches \cup {[key |-> Trim(bookId), raw |-> bookId]}
            /\ lastSearch' = NoSearch
    /\ ev' = Event("find", bookId, TRUE)
    /\ UNCHANGED <<tabVars, apiVars, bookVars, custVars, propVars, spEffectPending,
                   srvBorrowed, bookId, isBorrowing, borrows, refreshCalls,
                   borrowCalls>>

\* if (book.available_copies > 0)
HasAvailableCopyAlways(book) == TRUE

HasAvailableCopy(book) == book.available > 0

\* The rest of searchBookCopy: getBook settled.
BookSearchResponse(q, ok, book) ==
    /\ activeTab = "temp1"
    /\ ~spEffectPending
    /\ q \in copySearches
    /\ copySearches' = copySearches \ {q}
    /\ IF ok
       THEN /\ bookData' = book
            /\ IF HasAvailableCopy(book)
               THEN /\ availableCopy' = [book_id |-> book.id]
                    /\ UNCHANGED errorMessage
               ELSE /\ errorMessage' = [kind |-> "noCopies", text |-> book.title,
                                        a |-> book.available, b |-> book.copies]
                    /\ UNCHANGED availableCopy
       ELSE /\ errorMessage' = [NoError EXCEPT !.kind = "notFound", !.text = q.raw]
            /\ UNCHANGED <<bookData, availableCopy>>
    /\ isSearching' = FALSE
    /\ lastSearch' = IF ~ok THEN [kind |-> "notFound", book |-> NoBookData]
                     ELSE IF book.available > 0 THEN [kind |-> "found", book |-> book]
                     ELSE [kind |-> "noCopies", book |-> book]
    /\ ev' = Event("findResponse",
                    [search |-> q, book |-> IF ok THEN book ELSE NoBookData], ok)
    /\ UNCHANGED <<tabVars, apiVars, bookVars, custVars, propVars, spEffectPending,
                   srvBorrowed, panelOps, bookId, isBorrowing, borrows,
                   refreshCalls, borrowCalls>>

\* BorrowBook.handleBorrowConfirm up to its await; the Borrow button is in
\* the block {bookData && availableCopy && ...} and disabled={isBorrowing}.
HandleBorrowConfirm ==
    /\ FormMounted
    /\ bookData # NoBookData /\ availableCopy # NoCopy
    /\ ~isBorrowing
    /\ IF customerDetails.id = 0 \/ bookData.id = 0
       THEN UNCHANGED <<isBorrowing, borrows, borrowCalls, panelOps>>
       ELSE /\ panelOps < MaxOps
            /\ panelOps' = panelOps + 1
            /\ isBorrowing' = TRUE
            /\ borrowCalls' = borrowCalls + 1
            /\ borrows' = borrows \cup {[n |-> borrowCalls + 1,
                                         cust |-> customerDetails.id,
                                         book |-> bookData.id, orphan |-> FALSE]}
    /\ ev' = Event("borrow", bookData.id, TRUE)
    /\ UNCHANGED <<tabVars, apiVars, bookVars, custVars, propVars, spEffectPending,
                   srvBorrowed, bookId, bookData, availableCopy, isSearching,
                   errorMessage, copySearches, refreshCalls, lastSearch>>

\* // Reset form
ResetFormKeepsId ==
    /\ bookData' = NoBookData
    /\ availableCopy' = NoCopy
    /\ errorMessage' = NoError
    /\ UNCHANGED bookId

ResetForm ==
    /\ bookId' = Empty
    /\ bookData' = NoBookData
    /\ availableCopy' = NoCopy
    /\ errorMessage' = NoError

\* SearchProperties.handleBorrowSuccess up to its await.
HandleBorrowSuccess(cust, list) ==
    /\ refreshCalls' = refreshCalls + 1
    /\ LoadBorrowed(cust, "borrow", list)

\* setErrorMessage(error.message || 'Failed to borrow book')
BorrowErrorNone(msg) == NoError

BorrowError(msg) ==
    IF msg # Empty
    THEN [NoError EXCEPT !.kind = "server", !.text = msg]
    ELSE [NoError EXCEPT !.kind = "borrowFailed"]

\* The event the server records for a borrow.
NewEvent(n) == 20 + n

\* The rest of handleBorrowConfirm: borrowBook settled. What it sets in a
\* BorrowBook that left the page is lost; onBorrowSuccess is called all the same.
BorrowResponse(b, ok, msg) ==
    /\ activeTab = "temp1"
    /\ ~spEffectPending
    /\ b \in borrows
    /\ borrows' = borrows \ {b}
    /\ IF ok
       THEN /\ srvBorrowed' = [srvBorrowed EXCEPT ![b.cust] = @ \cup {NewEvent(b.n)}]
            /\ IF b.orphan
               THEN UNCHANGED <<bookId, bookData, availableCopy, errorMessage>>
               ELSE ResetForm
            /\ HandleBorrowSuccess(b.cust, srvBorrowed[b.cust] \cup {NewEvent(b.n)})
       ELSE /\ errorMessage' = IF b.orphan THEN errorMessage ELSE BorrowError(msg)
            /\ UNCHANGED <<srvBorrowed, bookId, bookData, availableCopy, refreshCalls,
                           borrowed, spIsLoading, loads, loadSeq>>
    /\ isBorrowing' = IF b.orphan THEN isBorrowing ELSE FALSE
    /\ ev' = Event("borrowResponse", [req |-> b, msg |-> IF ok THEN Empty ELSE msg], ok)
    /\ UNCHANGED <<tabVars, apiVars, bookVars, custVars, spEffectPending, activeSubTab,
                   returningId, returns, lastAlert, panelOps, isSearching,
                   copySearches, borrowCalls, lastSearch>>

\* The Cancel button: in the block {bookData && availableCopy && ...},
\* disabled={isBorrowing}.
CancelAvailable ==
    /\ FormMounted
    /\ bookData # NoBookData /\ availableCopy # NoCopy
    /\ ~isBorrowing

\* BorrowBook.handleCancel
HandleCancel ==
    /\ CancelAvailable
    /\ bookData' = NoBookData
    /\ availableCopy' = NoCopy
    /\ errorMessage' = NoError
    /\ ev' = Event("cancel", Empty, TRUE)
    /\ UNCHANGED <<tabVars, apiVars, bookVars, custVars, propVars, spEffectPending,
                   srvBorrowed, panelOps, bookId, isSearching, isBorrowing,
                   copySearches, borrows, refreshCalls, borrowCalls, lastSearch>>

\* ------------------------------------------ Mainwindow and the panel below it
\* The rest of handleSelectCustomer: getCustomer settled.
\* SearchProperties renders again with the new customerDetails prop, and its
\* effect, deps [customerDetails?.id], is due when the id changed.
\* With customerDetails null SearchProperties renders nothing (if
\* (!customerDetails) return null), so the BorrowBook it showed leaves the page
\* in the same commit; SearchProperties itself keeps its state.
\* Mainwindow stays on the page whatever the tab: on the book tab it renders
\* again when its state changed and hands BookSearchbar a new onBookSelect,
\* so the search effect of BookSearchbar is due.
CustDetailResponse(f, ok) ==
    /\ ~spEffectPending
    /\ ~effectPending
    /\ f \in custFetches
    /\ custFetches' = custFetches \ {f}
    /\ customerDetails' = IF ok THEN [id |-> f.id] ELSE NoCustomer
    /\ custIsLoading' = FALSE
    /\ spEffectPending' = (activeTab = "temp1" /\ customerDetails'.id # customerDetails.id)
    /\ effectPending' = (/\ activeTab = "temp2"
                         /\ (ok \/ customerDetails # NoCustomer \/ custIsLoading))
    /\ IF activeTab = "temp1" /\ ~ok /\ customerDetails # NoCustomer
            /\ activeSubTab = "borrow"
       THEN UnmountForm /\ borrows' = Orphaned(borrows)
       ELSE UNCHANGED <<bookId, bookData, availableCopy, isSearching, isBorrowing,
                        errorMessage, copySearches, lastSearch, borrows>>
    /\ ev' = Event("custDetail", f, ok)
    /\ UNCHANGED <<tabVars, apiVars, barVars, custFetchSeq, propVars, refreshCalls,
                   borrowCalls, srvBorrowed, panelOps>>
    /\ UNCHANGED <<showPopup, searchValue, suggestions, isLoading, selectedBook,
                   currentSearchRef, searchTimeoutRef, requestIdRef, timers,
                   blurTimers, focused, bookSearches, bookFetches, bookDetails,
                   isBookLoading, fetchSeq, lookupsSinceChange, lastSelected>>

InitPanel ==
    /\ activeSubTab = "borrowed"
    /\ borrowed = {}
    /\ spIsLoading = FALSE
    /\ returningId = 0
    /\ spEffectPending = FALSE
    /\ loads = {}
    /\ returns = {}
    /\ bookId = Empty
    /\ bookData = NoBookData
    /\ availableCopy = NoCopy
    /\ isSearching = FALSE
    /\ isBorrowing = FALSE
    /\ errorMessage = NoError
    /\ copySearches = {}
    /\ borrows = {}
    /\ srvBorrowed = InitialBorrowed
    /\ loadSeq = 0
    /\ panelOps = 0
    /\ refreshCalls = 0
    /\ borrowCalls = 0
    /\ lastSearch = NoSearch
    /\ lastAlert = Empty

\* --------------------------------------------------------------- ApiService
\* The endpoints request is called with.
Endpoints == {"/books/7/", "/customers/1/borrowed/"}

\* What fetch resolves with: the HTTP status and the body, which parses as
\* JSON or not and, parsed, is null or not, and has a detail field (possibly
\* '') or not.
NoResponse ==
    [status |-> 0, parses |-> FALSE, isNull |-> FALSE, hasDetail |-> FALSE,
     detail |-> Empty]
Statuses == {200, 201, 400, 404, 500}
Responses ==
    {r \in [status : Statuses, parses : BOOLEAN, isNull : BOOLEAN,
            hasDetail : BOOLEAN, detail : {Empty, Detail}] :
        /\ r.isNull => r.parses /\ ~r.hasDetail
        /\ r.hasDetail => r.parses
        /\ r.detail # Empty => r.hasDetail}

\* The errors request throws, and what it returns or throws.
NoApiError == [kind |-> "", text |-> Empty, status |-> 0]
NoOutcome == [kind |-> "none", error |-> NoApiError, data |-> NoResponse]

\* response.ok
ResponseOk(status) == status >= 200 /\ status <= 299

\* new Error(errorData.detail || `HTTP error! status: ${response.status}`),
\* with errorData = await response.json().catch(() => ({})): a body that does
\* not parse counts as {}, and reading .detail of a body that is null throws
\* a TypeError, which the catch block throws on.
ErrorOf(response) ==
    IF response.parses /\ response.isNull
    THEN [kind |-> "typeerror", text |-> Empty, status |-> 0]
    ELSE IF response.parses /\ response.hasDetail /\ response.detail # Empty
    THEN [kind |-> "detail", text |-> response.detail, status |-> 0]
    ELSE [kind |-> "http", text |-> Empty, status |-> response.status]

ApiFrame == UNCHANGED <<tabVars, bookVars, custVars, panelVars, ev>>

\* ApiService.request up to await fetch(url, config).  Calls overlap: each
\* has its own place in apiPhase, apiEndpoint, apiResponse and apiOutcome.
ApiRequest(endpoint) ==
    /\ apiCalls < MaxCalls
    /\ apiPhase' = Append(apiPhase, "fetch")
    /\ apiEndpoint' = Append(apiEndpoint, endpoint)
    /\ apiCalls' = apiCalls + 1
    /\ apiFetches' = apiFetches + 1
    /\ apiResponse' = Append(apiResponse, NoResponse)
    /\ apiOutcome' = Append(apiOutcome, NoOutcome)
    /\ ApiFrame

\* fetch rejects (no response): catch (error) { ...; throw error; }
ApiFetchRejects(n) ==
    /\ n \in 1..apiCalls
    /\ apiPhase[n] = "fetch"
    /\ apiPhase' = [apiPhase EXCEPT ![n] = "done"]
    /\ apiOutcome' = [apiOutcome EXCEPT ![n] =
                        [NoOutcome EXCEPT !.kind = "thrown", !.error.kind = "network"]]
    /\ UNCHANGED <<apiEndpoint, apiResponse, apiCalls, apiFetches>>
    /\ ApiFrame

\* fetch resolves: request goes on to await response.json()
ApiFetchResolves(n, response) ==
    /\ n \in 1..apiCalls
    /\ apiPhase[n] = "fetch"
    /\ apiPhase' = [apiPhase EXCEPT ![n] = "body"]
    /\ apiResponse' = [apiResponse EXCEPT ![n] = response]
    /\ UNCHANGED <<apiEndpoint, apiOutcome, apiCalls, apiFetches>>
    /\ ApiFrame

\* response.json() settled: the throw for !response.ok, else the data, or the
\* error of a body that does not parse.
ApiBodySettles(n) ==
    /\ n \in 1..apiCalls
    /\ apiPhase[n] = "body"
    /\ apiPhase' = [apiPhase EXCEPT ![n] = "done"]
    /\ apiOutcome' = [apiOutcome EXCEPT ![n] =
         IF ~ResponseOk(apiResponse[n].status)
         THEN [NoOutcome EXCEPT !.kind = "thrown", !.error = ErrorOf(apiResponse[n])]
         ELSE IF apiResponse[n].parses
              THEN [NoOutcome EXCEPT !.kind = "returned", !.data = apiResponse[n]]
              ELSE [NoOutcome EXCEPT !.kind = "thrown", !.error.kind = "syntax"]]
    /\ UNCHANGED <<apiEndpoint, apiResponse, apiCalls, apiFetches>>
    /\ ApiFrame

\* const [activeTab, setActiveTab] = useState('temp1'): nothing has left the page.
InitTabs ==
    /\ detached = {}
    /\ tabSwitches = 0

InitApi ==
    /\ apiPhase = <<>>
    /\ apiEndpoint = <<>>
    /\ apiResponse = <<>>
    /\ apiOutcome = <<>>
    /\ apiCalls = 0
    /\ apiFetches = 0

\* ------------------------------------------------------- Mainwindow's tabs
Tabs == {"temp1", "temp2", "temp3"}

\* A BookSearchbar as it mounts (or none): state and refs initial.
FreshBookBar ==
    /\ showPopup' = FALSE
    /\ searchValue' = Empty
    /\ suggestions' = <<>>
    /\ isLoading' = FALSE
    /\ selectedBook' = NoBook
    /\ currentSearchRef' = Empty
    /\ searchTimeoutRef' = 0
    /\ requestIdRef' = 0
    /\ timers' = {}
    /\ blurTimers' = <<>>
    /\ focused' = FALSE
    /\ bookSearches' = {}
    /\ bookFetches' = {}
    /\ lookupsSinceChange' = 0
    /\ lastSelected' = NoSuggestion

\* A SearchBar and a SearchProperties as they mount (or none).
FreshCustomerTab ==
    /\ cShowPopup' = FALSE
    /\ cSearchValue' = Empty
    /\ cSuggestions' = <<>>
    /\ cIsLoading' = FALSE
    /\ cBlurTimers' = <<>>
    /\ cFocused' = FALSE
    /\ custSearches' = [v \in InputValues |-> 0]
    /\ activeSubTab' = "borrowed"
    /\ borrowed' = {}
    /\ spIsLoading' = FALSE
    /\ returningId' = 0
    /\ loads' = {}
    /\ returns' = {}
    /\ borrows' = {}
    /\ UnmountForm

\* What goes on after its component left the page: getBook of a selection
\* (onBookSelect is Mainwindow's), returnBook and borrowBook (the server acts,
\* alert is the window's).  The other requests and the timers only set the
\* state of a component that is gone.
Detach ==
    {[kind |-> "getBook", n |-> f.n, cust |-> 0, id |-> f.id] : f \in bookFetches}
      \cup {[kind |-> "return", n |-> r.n, cust |-> r.cust, id |-> r.event] : r \in returns}
      \cup {[kind |-> "borrow", n |-> b.n, cust |-> b.cust, id |-> b.book] : b \in borrows}

\* onClick={() => setActiveTab(tab)}: the components of the tab left unmount,
\* those of the tab shown mount in their initial state and their effects run.
SetActiveTab(tab) ==
    /\ tab \in Tabs
    /\ tab # activeTab
    /\ ~effectPending /\ ~spEffectPending
    /\ activeTab' = tab
    /\ tabSwitches' = tabSwitches + 1
    /\ detached' = detached \cup Detach
    /\ FreshBookBar
    /\ FreshCustomerTab
    /\ effectPending' = (tab = "temp2")
    /\ spEffectPending' = (tab = "temp1")
    /\ ev' = Event("tab", tab, TRUE)
    /\ UNCHANGED <<bookDetails, isBookLoading, fetchSeq, custFetches, customerDetails,
                   custIsLoading, custSeq, custFetchSeq, srvBorrowed, loadSeq,
                   panelOps, refreshCalls, borrowCalls, lastAlert, apiVars>>

\* A request of a component that left the page settles, and the handler that
\* awaited it goes on: handleSelectSuggestion calls onBookSelect; handleReturn
\* calls loadBorrowed and handleBorrowConfirm calls onBorrowSuccess, which
\* calls loadBorrowed, for the customer of the render they belong to.  That
\* getCustomerBorrowed call is issued, and its answer only sets the state of
\* the component that is gone.
DetachedSettles(d, ok, title, msg) ==
    /\ d \in detached
    /\ ~effectPending /\ ~spEffectPending
    /\ detached' = detached \ {d}
    /\ IF d.kind = "getBook"
       THEN /\ HandleSelectBook(IF ok THEN [id |-> d.id, title |-> title] ELSE NoBook)
            /\ effectPending' = (activeTab = "temp2" /\ (ok \/ bookDetails # NoBook))
            /\ UNCHANGED <<srvBorrowed, loads, loadSeq, refreshCalls, lastAlert>>
       ELSE /\ LET list == IF d.kind = "return"
                           THEN srvBorrowed[d.cust] \ {d.id}
                           ELSE srvBorrowed[d.cust] \cup {NewEvent(d.n)}
               IN IF ok
                  THEN /\ srvBorrowed' = [srvBorrowed EXCEPT ![d.cust] = list]
                       /\ loads' = Observe(loads, d.cust, list)
                       /\ loadSeq' = loadSeq + 1
                       /\ refreshCalls' = IF d.kind = "borrow" THEN refreshCalls + 1
                                          ELSE refreshCalls
                  ELSE UNCHANGED <<srvBorrowed, loads, loadSeq, refreshCalls>>
            /\ lastAlert' = IF d.kind = "return" /\ ~ok THEN ReturnAlert(msg)
                            ELSE lastAlert
            /\ UNCHANGED <<bookDetails, isBookLoading, effectPending>>
    /\ ev' = Event("detached", d, ok)
    /\ UNCHANGED <<activeTab, tabSwitches, apiVars, custVars, spEffectPending,
                   activeSubTab, borrowed, spIsLoading, returningId, returns,
                   bookId, bookData, availableCopy, isSearching, isBorrowing,
                   errorMessage, copySearches, borrows, borrowCalls, lastSearch,
                   panelOps>>
    /\ UNCHANGED <<showPopup, searchValue, suggestions, isLoading, selectedBook,
                   currentSearchRef, searchTimeoutRef, requestIdRef, timers,
                   blurTimers, focused, bookSearches, bookFetches, fetchSeq,
                   lookupsSinceChange, lastSelected>>

\* Mainwindow shows the customer tab ('temp1') or the book tab ('temp2');
\* the search bar of a tab is mounted, in its initial state, with its tab.
Init ==
    /\ activeTab \in {"temp1", "temp2"}
    /\ InitBook
    /\ InitCust
    /\ InitPanel
    /\ InitApi
    /\ InitTabs
    /\ ev = Event("mount", Empty, TRUE)

Next ==
    \/ RunEffect
    \/ \E value \in InputValues : HandleInputChange(value)
    \/ \E t \in timers : TimerFire(t)
    \/ \E r \in bookSearches, ok \in BOOLEAN, list \in SuggestionLists :
         SearchResponse(r, ok, list)
    \/ HandleFocus
    \/ Len(blurTimers) < MaxBlurTimers /\ HandleBlur
    \/ \E i \in 1..Len(blurTimers) : BlurTimerFire(i)
    \/ \E s \in Elems(suggestions) : HandleSelectSuggestion(s)
    \/ \E f \in bookFetches, ok \in BOOLEAN, title \in Titles :
         DetailResponse(f, ok, title)
    \/ ClearSelection
    \/ Tick
    \/ \E value \in InputValues : CustInputChange(value)
    \/ \E r \in InputValues, ok \in BOOLEAN, list \in SuggestionLists :
         CustSearchResponse(r, ok, list)
    \/ CustFocus
    \/ Len(cBlurTimers) < MaxBlurTimers /\ CustBlur
    \/ \E i \in 1..Len(cBlurTimers) : CustBlurTimerFire(i)
    \/ \E s \in Elems(cSuggestions) :
         custFetchSeq < MaxFetches /\ CustSelectSuggestion(s)
    \/ \E f \in custFetches, ok \in BOOLEAN : CustDetailResponse(f, ok)
    \/ CustTick
    \/ RunPanelEffect
    \/ \E l \in loads, ok \in BOOLEAN : \E rows \in l.seen : LoadResponse(l, ok, rows)

Spec == Init /\ [][Next]_vars

\* The actions panel of a customer picked in the search bar: the user works
\* in the panel, from the moment the suggestion was clicked.
InitBorrow ==
    /\ activeTab = "temp1"
    /\ InitBook
    /\ InitPanel
    /\ InitApi
    /\ InitTabs
    /\ \E s \in {Sugg1, Sugg2} :
         /\ cSearchValue = s.text
         /\ custFetches = {[n |-> 1, id |-> s.id]}
         /\ ev = Event("custSelect", s, TRUE)
    /\ cSuggestions = <<Sugg1, Sugg2>>
    /\ cShowPopup = FALSE
    /\ cIsLoading = FALSE
    /\ cBlurTimers = <<>>
    /\ cFocused = TRUE
    /\ custSearches = [v \in InputValues |-> 0]
    /\ customerDetails = NoCustomer
    /\ custIsLoading = TRUE
    /\ custSeq = 1
    /\ custFetchSeq = 1

NextBorrow ==
    \/ \E f \in custFetches, ok \in BOOLEAN : CustDetailResponse(f, ok)
    \/ RunPanelEffect
    \/ \E l \in loads, ok \in BOOLEAN : \E rows \in l.seen : LoadResponse(l, ok, rows)
    \/ \E tab \in {"borrowed", "history", "borrow"} : SetActiveSubTab(tab)
    \/ \E e \in borrowed : HandleReturn(e)
    \/ \E r \in returns, ok \in BOOLEAN, msg \in Messages : ReturnResponse(r, ok, msg)
    \/ \E value \in BookIdInputs : SetBookId(value)
    \/ SearchBookCopy
    \/ \E q \in copySearches, ok \in BOOLEAN, book \in BookRecords :
         BookSearchResponse(q, ok, book)
    \/ HandleBorrowConfirm
    \/ \E b \in borrows, ok \in BOOLEAN, msg \in Messages : BorrowResponse(b, ok, msg)
    \/ HandleCancel

SpecBorrow == InitBorrow /\ [][NextBorrow]_vars

\* Customers picked one after the other from the suggestions of one lookup:
\* the search bar from the moment the suggestions are shown, Mainwindow and
\* the panel as they follow.
InitCustomers ==
    /\ activeTab = "temp1"
    /\ InitBook
    /\ InitPanel
    /\ InitApi
    /\ InitTabs
    /\ cSearchValue = Al
    /\ cSuggestions = <<Sugg1, Sugg2>>
    /\ cShowPopup = TRUE
    /\ cIsLoading = FALSE
    /\ cBlurTimers = <<>>
    /\ cFocused = TRUE
    /\ custSearches = [v \in InputValues |-> 0]
    /\ custFetches = {}
    /\ customerDetails = NoCustomer
    /\ custIsLoading = FALSE
    /\ custSeq = 1
    /\ custFetchSeq = 0
    /\ ev = Event("custSearchResponse", Al, TRUE)

NextCustomers ==
    \/ CustFocus
    \/ Len(cBlurTimers) < MaxBlurTimers /\ CustBlur
    \/ \E i \in 1..Len(cBlurTimers) : CustBlurTimerFire(i)
    \/ CustTick
    \/ \E s \in Elems(cSuggestions) :
         custFetchSeq < MaxCustomers /\ CustSelectSuggestion(s)
    \/ \E f \in custFetches, ok \in BOOLEAN : CustDetailResponse(f, ok)
    \/ RunPanelEffect
    \/ \E l \in loads, ok \in BOOLEAN : \E rows \in l.seen : LoadResponse(l, ok, rows)

SpecCustomers == InitCustomers /\ [][NextCustomers]_vars

\* The borrow form leaves the page while it is in use, because the fetch of
\* another customer fails or because the tab changes: customer 1 is shown
\* with the borrowed list loaded, and the search bar has the focus again with
\* its suggestions open.
InitCustomerShown ==
    /\ activeTab = "temp1"
    /\ InitBook
    /\ InitApi
    /\ InitTabs
    /\ cSearchValue = Sugg1.text
    /\ cSuggestions = <<Sugg1, Sugg2>>
    /\ cShowPopup = TRUE
    /\ cIsLoading = FALSE
    /\ cBlurTimers = <<>>
    /\ cFocused = TRUE
    /\ custSearches = [v \in InputValues |-> 0]
    /\ custFetches = {}
    /\ customerDetails = [id |-> Sugg1.id]
    /\ custIsLoading = FALSE
    /\ custSeq = 1
    /\ custFetchSeq = 1
    /\ activeSubTab = "borrowed"
    /\ borrowed = InitialBorrowed[Sugg1.id]
    /\ spIsLoading = FALSE
    /\ returningId = 0
    /\ spEffectPending = FALSE
    /\ loads = {}
    /\ returns = {}
    /\ bookId = Empty
    /\ bookData = NoBookData
    /\ availableCopy = NoCopy
    /\ isSearching = FALSE
    /\ isBorrowing = FALSE
    /\ errorMessage = NoError
    /\ copySearches = {}
    /\ borrows = {}
    /\ srvBorrowed = InitialBorrowed
    /\ loadSeq = 1
    /\ panelOps = 0
    /\ refreshCalls = 0
    /\ borrowCalls = 0
    /\ lastSearch = NoSearch
    /\ lastAlert = Empty
    /\ ev = Event("loadResponse",
                  [load |-> [n |-> 1, cust |-> Sugg1.id, then |-> "none",
                             seen |-> {InitialBorrowed[Sugg1.id]}],
                   rows |-> InitialBorrowed[Sugg1.id]], TRUE)

NextUnmount ==
    \/ \E tab \in Tabs : tabSwitches < MaxTabSwitches /\ SetActiveTab(tab)
    \/ \E d \in detached, ok \in BOOLEAN, title \in Titles, msg \in Messages :
         DetachedSettles(d, ok, title, msg)
    \/ RunEffect
    \/ HandleCancel
    \/ \E s \in Elems(cSuggestions) :
         custFetchSeq < MaxCustomers /\ CustSelectSuggestion(s)
    \/ \E f \in custFetches, ok \in BOOLEAN : CustDetailResponse(f, ok)
    \/ RunPanelEffect
    \/ \E l \in loads, ok \in BOOLEAN : \E rows \in l.seen : LoadResponse(l, ok, rows)
    \/ \E tab \in {"borrowed", "history", "borrow"} : SetActiveSubTab(tab)
    \/ SetBookId(Seven)
    \/ SearchBookCopy
    \/ \E q \in copySearches, ok \in BOOLEAN, book \in BookRecords :
         BookSearchResponse(q, ok, book)
    \/ HandleBorrowConfirm
    \/ \E b \in borrows, ok \in BOOLEAN, msg \in Messages : BorrowResponse(b, ok, msg)

SpecUnmount == InitCustomerShown /\ [][NextUnmount]_vars

\* The page from the moment it loads, with changes of tab: lookups,
\* selections and returns on the tabs, and what their requests do after the
\* tab was left.
InitMainwindow == Init /\ activeTab = "temp1"

NextTabs ==
    \/ \E tab \in Tabs : tabSwitches < MaxTabSwitches /\ SetActiveTab(tab)
    \/ \E d \in detached, ok \in BOOLEAN, title \in Titles, msg \in Messages :
         DetachedSettles(d, ok, title, msg)
    \/ RunEffect
    \/ HandleInputChange(Al)
    \/ \E t \in timers : TimerFire(t)
    \/ \E r \in bookSearches, ok \in BOOLEAN, list \in SuggestionLists :
         SearchResponse(r, ok, list)
    \/ \E s \in Elems(suggestions) : HandleSelectSuggestion(s)
    \/ \E f \in bookFetches, ok \in BOOLEAN, title \in Titles :
         DetailResponse(f, ok, title)
    \/ Tick
    \/ CustInputChange(Al)
    \/ \E r \in InputValues, ok \in BOOLEAN, list \in SuggestionLists :
         CustSearchResponse(r, ok, list)
    \/ \E s \in Elems(cSuggestions) :
         custFetchSeq < MaxFetches /\ CustSelectSuggestion(s)
    \/ \E f \in custFetches, ok \in BOOLEAN : CustDetailResponse(f, ok)
    \/ RunPanelEffect
    \/ \E l \in loads, ok \in BOOLEAN : \E rows \in l.seen : LoadResponse(l, ok, rows)
    \/ \E eventId \in borrowed : HandleReturn(eventId)
    \/ \E r \in returns, ok \in BOOLEAN, msg \in Messages : ReturnResponse(r, ok, msg)

SpecTabs == InitMainwindow /\ [][NextTabs]_vars

\* ApiService.request, calls that may overlap, on the page as it loads.
InitApiCalls == Init /\ activeTab = "temp1"

NextApi ==
    \/ \E endpoint \in Endpoints : ApiRequest(endpoint)
    \/ \E n \in 1..apiCalls : ApiFetchRejects(n)
    \/ \E n \in 1..apiCalls, response \in Responses : ApiFetchResolves(n, response)
    \/ \E n \in 1..apiCalls : ApiBodySettles(n)

SpecApi == InitApiCalls /\ [][NextApi]_vars

\* ------------------------------------------------------------------ claims

\* C1: between two changes of the book search input at most one lookup is
\* dispatched (one lookup per quiet period of the input).
C1_OneLookupPerQuietPeriod == lookupsSinceChange <= 1

\* C2: a settled book lookup changes suggestions, popup and loading flag
\* only if its request id is the latest one and currentSearchRef still holds
\* its query, and then its query is the trimmed input value.
C2_StaleResponsesDiscarded ==
    [][\A r \in bookSearches : r \notin bookSearches' =>
          (<<suggestions, showPopup, isLoading>>' # <<suggestions, showPopup, isLoading>>
             => /\ r.rid = requestIdRef
                /\ currentSearchRef = r.term
                /\ r.term = Trim(searchValue))]_vars

\* A lookup for an earlier query has just been discarded while the
\* suggestions of the current query are shown.
C2_Witness ==
    /\ ev.kind = "searchResponse"
    /\ ~ev.applied
    /\ ev.arg # Trim(searchValue)
    /\ suggestions # <<>>
    /\ showPopup

\* C3: once an empty input (typed, or the clear button) has been processed,
\* suggestions are empty, the popup is closed, nothing is selected, the
\* container holds no book, no debounce timer is pending, and the step
\* dispatched no lookup.
C3_ClearIsImmediate ==
    [][(searchValue' = Empty /\ ~effectPending'
          => /\ suggestions' = <<>>
             /\ ~showPopup'
             /\ selectedBook' = NoBook
             /\ bookDetails' = NoBook
             /\ timers' = {})
       /\ (searchValue' = Empty /\ searchValue # Empty
             => bookSearches' = bookSearches)]_vars

\* The input has just been emptied while a lookup and a detail fetch were
\* in flight.
C3_Witness ==
    /\ ev.kind \in {"input", "clear"}
    /\ searchValue = Empty
    /\ ~effectPending
    /\ bookSearches # {}
    /\ bookFetches # {}
    /\ suggestions = <<>>

\* C4: after a suggestion has been selected, an input change to a value
\* other than that suggestion's text leaves nothing selected and the
\* container without a book, in the handler of the change.
C4_EditInvalidatesSelection ==
    [][(/\ activeTab = "temp2"
        /\ searchValue' # searchValue
        /\ bookFetches' = bookFetches
        /\ lastSelected # NoSuggestion
        /\ searchValue' # lastSelected.text)
          => selectedBook' = NoBook /\ bookDetails' = NoBook]_vars

\* C5: selecting a suggestion removes every pending debounce timer, closes
\* the popup, raises the loading flag and starts one detail fetch, for the
\* id of the suggestion whose text it writes into the input.
C5_SelectStartsOneFetch ==
    [][bookFetches' \ bookFetches # {}
          => /\ \A t \in timers : t \notin timers'
             /\ ~showPopup'
             /\ isLoading'
             /\ \E s \in Elems(suggestions) :
                  /\ searchValue' = s.text
                  /\ \E f \in bookFetches' \ bookFetches :
                       /\ f.id = s.id
                       /\ bookFetches' = bookFetches \cup {f}]_vars

\* A suggestion has just been selected while a debounce timer was pending.
C5_Witness ==
    /\ ev.kind = "select"
    /\ ev.cancelled > 0
    /\ bookFetches # {}
    /\ isLoading
    /\ ~showPopup

\* C6: a settled detail fetch resets the loading flag; resolved, the book
\* (the customer) fetched is selected and held by the container; rejected,
\* nothing is selected and nothing else changes.
C6_DetailFetchSettles ==
    [][/\ \A f \in bookFetches : f \notin bookFetches' =>
            /\ ~isLoading'
            /\ bookDetails' = selectedBook'
            /\ IF ev'.ok THEN selectedBook' # NoBook /\ selectedBook'.id = f.id
                         ELSE selectedBook' = NoBook
            /\ UNCHANGED <<searchValue, suggestions, showPopup>>
       /\ \A f \in custFetches : f \notin custFetches' =>
            /\ ~custIsLoading'
            /\ customerDetails' = IF ev'.ok THEN [id |-> f.id] ELSE NoCustomer
            /\ UNCHANGED <<cSearchValue, cSuggestions, cShowPopup>>]_vars

\* The detail fetch of the selected suggestion has just resolved.
C6_Witness ==
    /\ ev.kind = "detail"
    /\ ev.ok
    /\ selectedBook = ev.arg.book
    /\ selectedBook.id = lastSelected.id
    /\ bookDetails = selectedBook
    /\ ~isLoading

\* C7: the customer search bar dispatches a lookup only after its input has
\* been quiet, never in the handler of the change itself.
C7_CustomerLookupDebounced ==
    [][cSearchValue' # cSearchValue => custSearches' = custSearches]_vars

\* C8: a settled customer lookup that does not answer the current input
\* value (an earlier value, or any value once the input is cleared) leaves
\* suggestions and popup alone.
C8_CustomerStaleDiscarded ==
    [][\A r \in InputValues :
          custSearches'[r] < custSearches[r] /\ r # cSearchValue
             => UNCHANGED <<cSuggestions, cShowPopup>>]_vars

\* The confirmable 'found' state of the borrow workflow.
Found == bookData # NoBookData /\ availableCopy # NoCopy

\* C9: a settled book search leaves the borrow workflow in 'found' exactly
\* when a book was found with available_copies > 0; a book with no available
\* copy leaves the no-copies message with its title and copy counts, no book
\* leaves the not-found message; and a borrow request is issued only for the
\* book of a search that ended in 'found'.
C9_FoundOnlyWithCopies ==
    [][/\ ev'.kind = "findResponse" =>
            /\ Found' <=> (ev'.ok /\ ev'.arg.book.available > 0)
            /\ ~ev'.ok => /\ errorMessage'.kind = "notFound"
                          /\ errorMessage'.text = ev'.arg.search.raw
                          /\ bookData' = NoBookData
            /\ (ev'.ok /\ ev'.arg.book.available = 0) =>
                 errorMessage' = [kind |-> "noCopies", text |-> ev'.arg.book.title,
                                  a |-> 0, b |-> ev'.arg.book.copies]
       /\ \A b \in borrows' \ borrows :
            /\ lastSearch.kind = "found"
            /\ lastSearch.book.available > 0
            /\ b.book = lastSearch.book.id
       /\ (lastSearch.kind \in {"noCopies", "notFound"} /\ lastSearch' = lastSearch)
            => ~Found' /\ borrowCalls' = borrowCalls]_vars

\* C9 witness: a search found a book without available copies, the user went
\* on (typed another id), and still nothing can be confirmed.
C9_Witness ==
    /\ lastSearch.kind = "noCopies"
    /\ errorMessage.kind = "noCopies"
    /\ bookData = lastSearch.book
    /\ availableCopy = NoCopy
    /\ ev.kind = "bookId"
    /\ borrowCalls = 0

\* The getCustomerBorrowed calls a step starts.
NewLoads == {l \in loads' : l.n \notin {k.n : k \in loads}}

\* C10: when a confirmed borrow request succeeds, bookId, bookData,
\* availableCopy and errorMessage hold their initial values, the borrowing
\* flag is false, and the parent's refresh callback ran exactly once, starting
\* one reload of the borrowed list of the customer the book was borrowed for.
C10_BorrowSuccessResets ==
    [][\A b \in borrows \ borrows' : (ev'.kind = "borrowResponse" /\ ev'.ok) =>
          /\ ~b.orphan => /\ bookId' = Empty
                          /\ bookData' = NoBookData
                          /\ availableCopy' = NoCopy
                          /\ errorMessage' = NoError
                          /\ ~isBorrowing'
          /\ refreshCalls' = refreshCalls + 1
          /\ \E l \in loads' : /\ l.cust = b.cust
                                /\ NewLoads = {l}
          /\ spIsLoading']_vars

\* C10 witness: a borrow confirmed for a non-empty book id has just succeeded.
C10_Witness ==
    /\ ev.kind = "borrowResponse" /\ ev.ok /\ ~ev.arg.req.orphan
    /\ refreshCalls = 1
    /\ bookId = Empty
    /\ ~isBorrowing
    /\ \E l \in loads : l.then = "borrow" /\ l.cust = customerDetails.id
    /\ activeSubTab = "borrow"

\* C11: when a confirmed borrow request fails, errorMessage is the failure's
\* message (the fallback text when it has none), bookId, bookData and
\* availableCopy are unchanged so the workflow is still 'found', the Borrow
\* button is enabled again, onBorrowSuccess is not called (no reload starts),
\* and a borrow request is only ever issued by a click on Borrow.
C11_BorrowFailureKeepsFound ==
    [][/\ \A b \in borrows \ borrows' :
            (ev'.kind = "borrowResponse" /\ ~ev'.ok /\ ~b.orphan) =>
               /\ errorMessage' = IF ev'.arg.msg # Empty
                                  THEN [NoError EXCEPT !.kind = "server",
                                                       !.text = ev'.arg.msg]
                                  ELSE [NoError EXCEPT !.kind = "borrowFailed"]
               /\ UNCHANGED <<bookId, bookData, availableCopy>>
               /\ Found'
               /\ ~isBorrowing'
               /\ UNCHANGED <<refreshCalls, loads, activeSubTab>>
               /\ borrows' = borrows \ {b}
       /\ borrowCalls' # borrowCalls =>
            /\ ev'.kind = "borrow"
            /\ borrowCalls' = borrowCalls + 1
            /\ Cardinality(borrows') = Cardinality(borrows) + 1]_vars

\* C11 witness: a borrow has just failed with a message of the server and the
\* book found is still there to be confirmed again.
C11_Witness ==
    /\ ev.kind = "borrowResponse" /\ ~ev.ok /\ ~ev.arg.req.orphan
    /\ ev.arg.msg = Detail
    /\ errorMessage = [NoError EXCEPT !.kind = "server", !.text = Detail]
    /\ Found
    /\ ~isBorrowing
    /\ borrowCalls = 1
    /\ refreshCalls = 0

\* C12: cancel can be clicked in the found state and in the error state
\* (a search ended with the no-copies or the not-found message), it issues no
\* request, and after it the entered book id, bookData, availableCopy and
\* errorMessage hold their initial values.
C12_CancelReturnsToIdle ==
    [][/\ (FormMounted /\ ~isSearching /\ ~isBorrowing
             /\ (Found \/ errorMessage.kind \in {"noCopies", "notFound"}))
            => CancelAvailable
       /\ ev'.kind = "cancel" =>
            /\ bookId' = Empty
            /\ bookData' = NoBookData
            /\ availableCopy' = NoCopy
            /\ errorMessage' = NoError
            /\ UNCHANGED <<copySearches, borrows, loads, returns, srvBorrowed>>]_vars

\* C13: while a return request for a borrow record is in flight, the Return
\* button of the record's row is disabled.
C13_ReturningRowDisabled ==
    \A r \in returns :
        (PanelMounted /\ activeSubTab = "borrowed" /\ r.cust = customerDetails.id
           /\ r.event \in borrowed) => RowDisabled(r.event)

\* C14: a successful return does not edit the borrowed list locally but
\* starts one reload of the customer's list; and when the reload that ends
\* a return has succeeded and no request is in flight any more, the list
\* shown is the list the server holds for that customer.
C14_ReturnRefetches ==
    [][/\ (ev'.kind = "returnResponse" /\ ev'.ok) =>
             /\ borrowed' = borrowed
             /\ \E l \in loads' : /\ l.cust = ev'.arg.req.cust
                                   /\ l.then = "return"
                                   /\ NewLoads = {l}
       /\ (/\ ev'.kind = "loadResponse" /\ ev'.ok
           /\ ev'.arg.load.then = "return"
           /\ loads' = {} /\ returns' = {} /\ borrows' = {})
            => borrowed' = srvBorrowed'[ev'.arg.load.cust]]_vars

\* C15: when a return request fails, the borrowed list and the server's list
\* are as before, no reload starts, the alert shows the failure's message (the
\* fallback text when it has none), and returningId is cleared, so the row's
\* button is enabled again unless a reload is running.
C15_ReturnFailureAlerts ==
    [][(ev'.kind = "returnResponse" /\ ~ev'.ok) =>
          /\ UNCHANGED <<borrowed, srvBorrowed, loads, spIsLoading>>
          /\ lastAlert' = IF ev'.arg.msg # Empty THEN ev'.arg.msg
                          ELSE <<"Return failed">>
          /\ returningId' = 0
          /\ ~spIsLoading => ~(spIsLoading' \/ returningId' = ev'.arg.req.event)]_vars

\* C15 witness: the return of a row has just failed with a message of the
\* server, and the row is still listed and can be returned again.
C15_Witness ==
    /\ ev.kind = "returnResponse" /\ ~ev.ok
    /\ ev.arg.msg = Detail
    /\ lastAlert = Detail
    /\ ev.arg.req.event \in borrowed
    /\ ev.arg.req.event \in srvBorrowed[ev.arg.req.cust]
    /\ ~RowDisabled(ev.arg.req.event)
    /\ loads = {}

\* C16: a request whose response has a status outside 200..299 throws and
\* returns no data; the error's message is the detail field of the body when
\* the body parses and has a non-empty one, else the message made of the
\* status; and every call of request calls fetch once, a failure included.
C16_NonOkThrows ==
    /\ \A n \in 1..apiCalls :
         /\ (apiPhase[n] = "done" /\ apiResponse[n] # NoResponse
               /\ (apiResponse[n].status < 200 \/ apiResponse[n].status > 299)) =>
              /\ apiOutcome[n].kind = "thrown"
              /\ apiOutcome[n].data = NoResponse
              /\ apiOutcome[n].error =
                   IF apiResponse[n].parses /\ apiResponse[n].hasDetail
                        /\ apiResponse[n].detail # Empty
                   THEN [kind |-> "detail", text |-> apiResponse[n].detail, status |-> 0]
                   ELSE [kind |-> "http", text |-> Empty, status |-> apiResponse[n].status]
         /\ apiOutcome[n].kind = "returned" =>
              /\ apiResponse[n].status >= 200 /\ apiResponse[n].status <= 299
              /\ apiOutcome[n].data = apiResponse[n]
    /\ apiFetches = apiCalls

\* C17: a getBook response that arrives when the input no longer shows the
\* text of the suggestion it was started for, or after another suggestion was
\* selected, sets neither selectedBook nor the parent's bookDetails.
C17_StaleDetailDiscarded ==
    [][\A f \in bookFetches \ bookFetches' :
          (ev'.ok /\ (searchValue # f.text \/ lastSelected.id # f.id))
             => UNCHANGED <<selectedBook, bookDetails>>]_vars

\* C18: while the last thing the user did is the selection of a suggestion
\* (the last event is the click or the getBook response that followed it),
\* a step that is no input dispatches no search lookup and, unless it is a
\* focus, does not open the popup.
C18_NoLookupAfterSelection ==
    [][(ev.kind \in {"select", "detail"} /\ searchValue' = searchValue) =>
          /\ bookSearches' = bookSearches
          /\ (focused' = focused /\ showPopup') => showPopup]_vars

\* C19: when no search lookup and no detail fetch is in flight, and the
\* effect of the last render has run, isLoading is false.
C19_LoadingNeverStuck ==
    (bookSearches = {} /\ bookFetches = {} /\ ~effectPending) => ~isLoading

\* C20: when a reload of the borrowed list has succeeded and no request is
\* in flight any more, the list shown is the list of the customer shown.
C20_BorrowedOfCurrentCustomer ==
    (/\ ev.kind = "loadResponse" /\ ev.ok
     /\ loads = {} /\ custFetches = {} /\ returns = {} /\ borrows = {}
     /\ ~spEffectPending
     /\ customerDetails # NoCustomer)
      => borrowed = srvBorrowed[customerDetails.id]

\* C21: when the detail fetch of an earlier selection succeeds after the
\* later one has, the customer shown stays the one of the later selection.
C21_LastSelectedCustomerWins ==
    [][\A f \in custFetches \ custFetches' :
         (/\ ev'.kind = "custDetail" /\ ev'.ok
          /\ custFetches' = {} /\ f.n < custFetchSeq
          /\ customerDetails # NoCustomer)
           => UNCHANGED customerDetails]_vars

\* C22: the BorrowBook on the page has at most one request in flight:
\* isSearching and isBorrowing are never both true, each is true exactly
\* while its request is in flight, the input, a book search and a borrow are
\* only used while both are false, and a confirmation issues exactly one
\* borrow request, for the customer shown and the book found.
C22_OneRequestInFlight ==
    [][/\ ~(isSearching' /\ isBorrowing')
       /\ Cardinality(copySearches') + Cardinality({b \in borrows' : ~b.orphan}) <= 1
       /\ isSearching' <=> copySearches' # {}
       /\ isBorrowing' <=> (\E b \in borrows' : ~b.orphan)
       /\ ev'.kind \in {"bookId", "find", "borrow", "cancel"}
            => ~isSearching /\ ~isBorrowing
       /\ copySearches' \ copySearches # {} => ev'.kind = "find"
       /\ borrowCalls' # borrowCalls
            => /\ ev'.kind = "borrow" /\ Found
               /\ borrowCalls' = borrowCalls + 1
               /\ borrows' = borrows \cup {[n |-> borrowCalls', cust |-> customerDetails.id,
                                            book |-> bookData.id, orphan |-> FALSE]}
               /\ Cardinality(borrows') = Cardinality(borrows) + 1]_vars

C22_Witness ==
    /\ ev.kind = "borrow"
    /\ isBorrowing /\ ~isSearching
    /\ borrowCalls = 2
    /\ copySearches = {}
    /\ \E b \in borrows : ~b.orphan /\ b.cust = customerDetails.id /\ b.book = bookData.id
====
